---- MODULE Spec2Model ----
(***************************************************************************)
(* SidecarEnvironment (src/src/minisweagent/environments/sidecar.py): one  *)
(* environment instance that owns an nc child process connected to the dev *)
(* container, its execute() read loop and its cleanup().                   *)
(*                                                                         *)
(* Bytes are symbols: "a" an ordinary character, "s" a whitespace          *)
(* character (space or newline), "x" a byte that is not valid UTF-8, "R"   *)
(* the replacement character, and "M1","M2" the two halves of the text     *)
(* COMMAND_DONE_MARKER, so that the marker can straddle two reads.         *)
(* Time is counted in ticks of one second.                                 *)
(***************************************************************************)
EXTENDS Integers, Sequences, FiniteSets, TLC

\* ---------------------------------------------------------------- bounds
\* execute() calls in one run
MaxCalls == 2
\* cleanup() calls in one run
MaxCleanups == 2
\* largest timeout (seconds) a configuration or a call asks for
MaxTimeout == 2
\* the polling interval the specification allows as overshoot (seconds)
PollInterval == 1
\* size of one stdout.read(); the 4096 bytes of the source scaled to symbols
ReadSize == 2

\* ----------------------------------------------------- program constants
\* self.nc_process = None
None == 0
\* self.nc_process.wait(timeout=5)
GracePeriod == 5
\* marker = b'COMMAND_DONE_MARKER'
Marker == <<"M1", "M2">>
\* the characters str.strip() removes
Whitespace == {"s"}

\* self.config.timeout of the instance (30 unless the constructor is given
\* another value); every other value is reachable through execute()'s argument
ConfigTimeout == MaxTimeout

\* cwd: str = "/" of the configuration
ConfigCwd == "/"
\* the directories that exist in the dev container
ExistingDirs == {"/", "/w"}
\* the directory in which the shell behind port 9000 starts
ShellStartDir == "/"
\* the cwd arguments of execute(): none, a directory, a directory that does
\* not exist in the dev container
CwdArgs == {"", "/w", "/gone"}

\* the outputs a command can print (none of them contains the marker)
Outputs == {<< >>, <<"a">>, <<"s", "a">>, <<"x", "s">>}
\* the exit statuses a command can end with
Statuses == {0, 1}

VARIABLES
    nc_process,     \* self.nc_process: None or the id of the Popen object
    spawned,        \* number of nc processes started so far (ids 1..spawned)
    running,        \* ids of the nc processes that are still running
    pc,             \* position of the thread that constructs and calls execute()
    cpc,            \* position of the thread that runs cleanup()
    timeout,        \* execute(): the local timeout
    output,         \* execute(): the local bytes buffer output
    elapsed,        \* execute(): time.time() - start_time
    pipe,           \* bytes nc has written to its stdout and nobody has read
    pending,        \* bytes the dev container has still to send
    written,        \* number of commands written to nc's stdin
    cmdStatus,      \* true exit status of the command written last
    cmdOutput,      \* what the command written last prints
    outcome,        \* how the last execute() ended
    result,         \* the dict the last execute() returned
    exitCause,      \* why the read loop of the last execute() ended
    calls,          \* number of execute() calls made
    okProc,         \* nc process of the last execute() if it found the marker
    okSpawned,      \* value of spawned at that moment
    broken,         \* nc processes that saw a timeout or a transport error
    brokenWrite,    \* a command was written to a process in broken
    cleanups,       \* number of cleanup() calls that have ended
    cleanupOutcome, \* how the last cleanup() ended
    ops,            \* what the current (or last) cleanup() did to the process
    logged,         \* level of the last cleanup() log record
    graceElapsed,   \* cleanup(): time spent in wait(timeout=5)
    cwd,            \* execute(): the local cwd
    shellCwd,       \* working directory of the remote shell of the connection
    interleaved     \* a cleanup() and the current execute() call overlapped

envVars == <<nc_process, spawned, running, pipe, pending, written, cmdStatus, cmdOutput>>
execVars == <<timeout, output, elapsed, outcome, result, exitCause, calls,
              okProc, okSpawned, broken, brokenWrite>>
cleanupVars == <<cleanups, cleanupOutcome, ops, logged, graceElapsed>>
vars == <<nc_process, spawned, running, pc, cpc, timeout, output, elapsed, pipe,
          pending, written, cmdStatus, cmdOutput, outcome, result, exitCause,
          calls, okProc, okSpawned, broken, brokenWrite, cleanups,
          cleanupOutcome, ops, logged, graceElapsed, cwd, shellCwd,
          interleaved>>
cwdVars == <<cwd, shellCwd>>

\* ------------------------------------------------------- pure functions
\* marker in output
ContainsMarker(s) ==
    \E i \in 1..(Len(s) - Len(Marker) + 1) : SubSeq(s, i, i + Len(Marker) - 1) = Marker

\* index of the first occurrence of the marker in s
FirstMarker(s) ==
    CHOOSE i \in 1..(Len(s) - Len(Marker) + 1) :
        /\ SubSeq(s, i, i + Len(Marker) - 1) = Marker
        /\ \A j \in 1..(i - 1) : SubSeq(s, j, j + Len(Marker) - 1) # Marker

\* output_str.split('COMMAND_DONE_MARKER')[0]
SplitFirst(s) == SubSeq(s, 1, FirstMarker(s) - 1)

RECURSIVE LStrip(_)
LStrip(s) == IF s # << >> /\ Head(s) \in Whitespace THEN LStrip(Tail(s)) ELSE s

RECURSIVE RStrip(_)
RStrip(s) ==
    IF s # << >> /\ s[Len(s)] \in Whitespace THEN RStrip(SubSeq(s, 1, Len(s) - 1)) ELSE s

\* str.strip(): leading and trailing whitespace removed
Strip(s) == RStrip(LStrip(s))

\* bytes.decode('utf-8', errors='replace')
Decode(s) == [i \in 1..Len(s) |-> IF s[i] = "x" THEN "R" ELSE s[i]]

\* lines 104-109: the dict execute() returns for the bytes in the buffer
ResultOf(buf) ==
    [output |-> IF ContainsMarker(Decode(buf)) THEN Strip(SplitFirst(Decode(buf)))
                ELSE Decode(buf),
     returncode |-> 0]

\* timeout = timeout or self.config.timeout, cwd likewise (0 stands for None)
OrDefault(arg, default) == IF arg = 0 THEN default ELSE arg

\* cwd = cwd or self.config.cwd
CwdOrDefault(arg) == IF arg = "" THEN ConfigCwd ELSE arg

\* "cd <shlex.quote(cwd)>; <command>": the shell reads the quoted word back
\* as cwd; cd changes the directory if it exists, otherwise it fails and
\* the command after the ";" runs where the shell already was
AfterCd(dir, target) == IF target \in ExistingDirs THEN target ELSE dir

\* what the remote shell answers to "cd <cwd>; <command>; echo '<marker>'"
Response(out) == out \o Marker \o <<"s">>

\* ----------------------------------------------------------------- Init
\* the state at line 56 of __init__, before _setup_connection()
Init ==
    /\ nc_process = None
    /\ spawned = 0
    /\ running = {}
    /\ pc = "init"
    /\ cpc = "idle"
    /\ timeout = 0
    /\ output = << >>
    /\ elapsed = 0
    /\ pipe = << >>
    /\ pending = << >>
    /\ written = 0
    /\ cmdStatus = 0
    /\ cmdOutput = << >>
    /\ outcome = "none"
    /\ result = << >>
    /\ exitCause = "none"
    /\ calls = 0
    /\ okProc = None
    /\ okSpawned = 0
    /\ broken = {}
    /\ brokenWrite = FALSE
    /\ cleanups = 0
    /\ cleanupOutcome = "none"
    /\ ops = << >>
    /\ logged = "none"
    /\ graceElapsed = 0
    /\ cwd = ""
    /\ shellCwd = ShellStartDir
    /\ interleaved = FALSE

\* the positions of execute() between its check of nc_process and its return
InFlight == {"write", "loop", "read"}

\* ------------------------------------------------------ construction
\* _setup_connection(): Popen(['nc', ...]) starts the nc process
SetupConnection ==
    /\ pc = "init"
    /\ spawned' = spawned + 1
    /\ nc_process' = spawned + 1
    /\ running' = running \cup {spawned + 1}
    /\ pipe' = << >>
    /\ pending' = << >>
    /\ pc' = "idle"
    /\ UNCHANGED <<cpc, written, cmdStatus, cmdOutput>>
    /\ UNCHANGED execVars
    /\ UNCHANGED cleanupVars
    /\ shellCwd' = ShellStartDir
    /\ UNCHANGED cwd
    /\ UNCHANGED interleaved

\* _setup_connection(): Popen raises OSError, which __init__ lets through;
\* the half-built object is only ever finalized
SetupConnectionFails ==
    /\ pc = "init"
    /\ pc' = "failed"
    /\ UNCHANGED <<cpc>>
    /\ UNCHANGED envVars
    /\ UNCHANGED execVars
    /\ UNCHANGED cleanupVars
    /\ UNCHANGED cwdVars
    /\ UNCHANGED interleaved

\* ------------------------------------------------------------ execute
\* lines 104-109 and the bookkeeping of how the call ended; the locals
\* timeout and start_time end with the call
Return(cause, buf) ==
    /\ outcome' = "returned"
    /\ result' = ResultOf(buf)
    /\ exitCause' = cause
    /\ okProc' = IF cause = "marker" THEN nc_process ELSE None
    /\ okSpawned' = IF cause = "marker" THEN spawned ELSE 0
    /\ broken' = IF cause = "marker" THEN broken ELSE broken \cup {nc_process}
    /\ timeout' = 0
    /\ elapsed' = 0
    /\ pc' = "idle"

\* execute() called with a process handle: lines 78-82, the check passes
ExecuteCallAt(at) ==
    /\ pc = "idle"
    /\ cpc \in at
    /\ calls < MaxCalls
    /\ nc_process # None
    /\ \E t \in 0..MaxTimeout : timeout' = OrDefault(t, ConfigTimeout)
    /\ calls' = calls + 1
    /\ outcome' = "none"
    /\ exitCause' = "none"
    /\ pc' = "write"
    /\ UNCHANGED <<cpc, output, elapsed, result, okProc, okSpawned, broken,
                   brokenWrite>>
    /\ UNCHANGED envVars
    /\ UNCHANGED cleanupVars
    /\ \E c \in CwdArgs : cwd' = CwdOrDefault(c)
    /\ UNCHANGED shellCwd
    /\ interleaved' = (cpc # "idle")

ExecuteCall == ExecuteCallAt({"idle"})

\* a variant of ExecuteNotStarted that reconnects instead of raising: a new
\* nc process is started and the call goes on to write its command
ExecuteNotStarted_Reopens ==
    /\ pc = "idle"
    /\ cpc = "idle"
    /\ calls < MaxCalls
    /\ nc_process = None
    /\ \E t \in 0..MaxTimeout : timeout' = OrDefault(t, ConfigTimeout)
    /\ calls' = calls + 1
    /\ spawned' = spawned + 1
    /\ nc_process' = spawned + 1
    /\ running' = running \cup {spawned + 1}
    /\ pipe' = << >>
    /\ pending' = << >>
    /\ outcome' = "none"
    /\ exitCause' = "none"
    /\ pc' = "write"
    /\ UNCHANGED <<cpc, output, elapsed, result, okProc, okSpawned, broken, brokenWrite>>
    /\ UNCHANGED <<written, cmdStatus, cmdOutput>>
    /\ UNCHANGED cleanupVars
    /\ \E c \in CwdArgs : cwd' = CwdOrDefault(c)
    /\ shellCwd' = ShellStartDir
    /\ interleaved' = (cpc # "idle")

\* a variant of ExecuteNotStarted that returns an empty result, not raising
ExecuteNotStarted_Silent ==
    /\ pc = "idle"
    /\ cpc = "idle"
    /\ calls < MaxCalls
    /\ nc_process = None
    /\ calls' = calls + 1
    /\ outcome' = "returned"
    /\ result' = ResultOf(<< >>)
    /\ exitCause' = "none"
    /\ okProc' = None
    /\ okSpawned' = 0
    /\ UNCHANGED <<pc, cpc, timeout, output, elapsed, broken, brokenWrite>>
    /\ UNCHANGED envVars
    /\ UNCHANGED cleanupVars
    /\ UNCHANGED cwdVars
    /\ interleaved' = (cpc # "idle")

\* execute() called without a process handle: raise RuntimeError (line 82)
ExecuteNotStartedAt(at) ==
    /\ pc = "idle"
    /\ cpc \in at
    /\ calls < MaxCalls
    /\ nc_process = None
    /\ calls' = calls + 1
    /\ outcome' = "RuntimeError"
    /\ exitCause' = "none"
    /\ okProc' = None
    /\ okSpawned' = 0
    /\ UNCHANGED <<pc, cpc, timeout, output, elapsed, result, broken, brokenWrite>>
    /\ UNCHANGED envVars
    /\ UNCHANGED cleanupVars
    /\ UNCHANGED cwdVars
    /\ interleaved' = (cpc # "idle")

ExecuteNotStarted == ExecuteNotStartedAt({"idle"})

\* lines 85-93: the command is written and flushed, the remote shell will
\* answer with the command's output and the echoed marker; line 85 is the
\* last use of the local cwd
ExecuteWrite ==
    /\ pc = "write"
    /\ nc_process \in running
    /\ written' = written + 1
    /\ \E out \in Outputs, st \in Statuses :
          /\ cmdOutput' = out
          /\ cmdStatus' = st
          /\ pending' = pending \o Response(out)
    /\ brokenWrite' = (brokenWrite \/ nc_process \in broken)
    /\ output' = << >>
    /\ elapsed' = 0
    /\ pc' = "loop"
    /\ UNCHANGED <<nc_process, spawned, running, pipe, cpc, timeout, outcome, result,
                   exitCause, calls, okProc, okSpawned, broken>>
    /\ UNCHANGED cleanupVars
    /\ shellCwd' = AfterCd(shellCwd, cwd)
    /\ cwd' = ""
    /\ UNCHANGED interleaved

\* lines 87-88 when nc has exited: flush() raises BrokenPipeError
ExecuteWriteBrokenPipe ==
    /\ pc = "write"
    /\ nc_process # None
    /\ nc_process \notin running
    /\ outcome' = "BrokenPipeError"
    /\ okProc' = None
    /\ okSpawned' = 0
    /\ broken' = broken \cup {nc_process}
    /\ timeout' = 0
    /\ pc' = "idle"
    /\ UNCHANGED <<cpc, output, elapsed, result, exitCause, calls,
                   brokenWrite>>
    /\ UNCHANGED envVars
    /\ UNCHANGED cleanupVars
    /\ cwd' = ""
    /\ UNCHANGED shellCwd
    /\ UNCHANGED interleaved

\* line 94: the while condition is false, the loop ends on the deadline
LoopDeadline ==
    /\ pc = "loop"
    /\ ~(elapsed < timeout)
    /\ Return("deadline", output)
    /\ UNCHANGED <<cpc, output, calls, brokenWrite>>
    /\ UNCHANGED envVars
    /\ UNCHANGED cleanupVars
    /\ UNCHANGED cwdVars
    /\ UNCHANGED interleaved

\* lines 95-96: poll() is not None, break
LoopProcessEnded ==
    /\ pc = "loop"
    /\ elapsed < timeout
    /\ nc_process # None
    /\ nc_process \notin running
    /\ Return("exited", output)
    /\ UNCHANGED <<cpc, output, calls, brokenWrite>>
    /\ UNCHANGED envVars
    /\ UNCHANGED cleanupVars
    /\ UNCHANGED cwdVars
    /\ UNCHANGED interleaved

\* lines 94-97: the process is alive, stdout.read(4096) is entered
LoopEnterRead ==
    /\ pc = "loop"
    /\ elapsed < timeout
    /\ nc_process \in running
    /\ pc' = "read"
    /\ UNCHANGED <<cpc>>
    /\ UNCHANGED envVars
    /\ UNCHANGED execVars
    /\ UNCHANGED cleanupVars
    /\ UNCHANGED cwdVars
    /\ UNCHANGED interleaved

\* stdout is an io.BufferedReader: read(4096) returns only with a full
\* buffer or at end-of-stream (the nc process, the only one the instance
\* ever starts, has exited); otherwise it blocks
ReadBlocked == Len(pipe) < ReadSize /\ running # {}

\* a variant of ReadData that looks for the marker in the chunk just read,
\* not in the accumulated buffer
ReadData_ChunkOnly ==
    /\ pc = "read"
    /\ ~ReadBlocked
    /\ pipe # << >>
    /\ LET n == IF Len(pipe) >= ReadSize THEN ReadSize ELSE Len(pipe)
           buf == output \o SubSeq(pipe, 1, n)
       IN  /\ pipe' = SubSeq(pipe, n + 1, Len(pipe))
           /\ output' = buf
           /\ IF ContainsMarker(SubSeq(pipe, 1, n))
              THEN Return("marker", buf)
              ELSE /\ pc' = "loop"
                   /\ UNCHANGED <<outcome, result, exitCause, okProc, okSpawned, broken,
                                  timeout, elapsed>>
    /\ UNCHANGED <<nc_process, spawned, running, pending, written, cmdStatus, cmdOutput>>
    /\ UNCHANGED <<cpc, calls, brokenWrite>>
    /\ UNCHANGED cleanupVars
    /\ UNCHANGED cwdVars
    /\ UNCHANGED interleaved

\* lines 97-102: read() returns data; it is appended and the marker looked for
ReadData ==
    /\ pc = "read"
    /\ ~ReadBlocked
    /\ pipe # << >>
    /\ LET n == IF Len(pipe) >= ReadSize THEN ReadSize ELSE Len(pipe)
           buf == output \o SubSeq(pipe, 1, n)
       IN  /\ pipe' = SubSeq(pipe, n + 1, Len(pipe))
           /\ output' = buf
           /\ IF ContainsMarker(buf)
              THEN Return("marker", buf)
              ELSE /\ pc' = "loop"
                   /\ UNCHANGED <<outcome, result, exitCause, okProc, okSpawned, broken,
                                  timeout, elapsed>>
    /\ UNCHANGED <<nc_process, spawned, running, pending, written, cmdStatus, cmdOutput>>
    /\ UNCHANGED <<cpc, calls, brokenWrite>>
    /\ UNCHANGED cleanupVars
    /\ UNCHANGED cwdVars
    /\ UNCHANGED interleaved

\* lines 97-99: read() returns b"" at end-of-stream, break
ReadEOF ==
    /\ pc = "read"
    /\ ~ReadBlocked
    /\ pipe = << >>
    /\ Return("eof", output)
    /\ UNCHANGED <<cpc, output, calls, brokenWrite>>
    /\ UNCHANGED envVars
    /\ UNCHANGED cleanupVars
    /\ UNCHANGED cwdVars
    /\ UNCHANGED interleaved

\* ------------------------------------------------------------ cleanup
\* how a cleanup() call ends: by returning (after line 123) or by raising;
\* the timer of wait() ends with it
CleanupEnds(how) ==
    /\ cleanupOutcome' = how
    /\ graceElapsed' = 0
    /\ cleanups' = cleanups + 1
    /\ cpc' = "idle"

\* cleanup() (called directly or by __del__) when nc_process is None:
\* line 113 is false, nothing is done
CleanupNoopAt(at) ==
    /\ cpc = "idle"
    /\ pc \in at
    /\ cleanups < MaxCleanups
    /\ nc_process = None
    /\ ops' = << >>
    /\ CleanupEnds("returned")
    /\ UNCHANGED <<pc, logged>>
    /\ UNCHANGED envVars
    /\ UNCHANGED execVars
    /\ UNCHANGED cwdVars
    /\ interleaved' = (interleaved \/ pc \in InFlight)

CleanupNoop == CleanupNoopAt({"idle", "failed"})

\* lines 113-116: terminate() is sent, wait(timeout=5) is entered
CleanupTerminateAt(at) ==
    /\ cpc = "idle"
    /\ pc \in at
    /\ cleanups < MaxCleanups
    /\ nc_process # None
    /\ ops' = <<"terminate">>
    /\ graceElapsed' = 0
    /\ cleanupOutcome' = "none"
    /\ cpc' = "wait"
    /\ UNCHANGED <<pc, cleanups, logged>>
    /\ UNCHANGED envVars
    /\ UNCHANGED execVars
    /\ UNCHANGED cwdVars
    /\ interleaved' = (interleaved \/ pc \in InFlight)

CleanupTerminate == CleanupTerminateAt({"idle", "failed"})

\* lines 115, 121-123: terminate() raises (os.kill fails on the live
\* process); except Exception logs the error, the handle is dropped
CleanupTerminateRaisesAt(at) ==
    /\ cpc = "idle"
    /\ pc \in at
    /\ cleanups < MaxCleanups
    /\ nc_process # None
    /\ nc_process \in running
    /\ ops' = <<"terminate">>
    /\ logged' = "error"
    /\ nc_process' = None
    /\ CleanupEnds("returned")
    /\ UNCHANGED <<pc>>
    /\ UNCHANGED <<spawned, running, pipe, pending, written, cmdStatus, cmdOutput>>
    /\ UNCHANGED execVars
    /\ UNCHANGED cwdVars
    /\ interleaved' = (interleaved \/ pc \in InFlight)

CleanupTerminateRaises == CleanupTerminateRaisesAt({"idle", "failed"})

\* lines 116-117, 123: the process has exited, wait() returns
CleanupWaitExited ==
    /\ cpc = "wait"
    /\ nc_process \notin running
    /\ ops' = ops \o <<"wait">>
    /\ logged' = "info"
    /\ nc_process' = None
    /\ CleanupEnds("returned")
    /\ UNCHANGED <<pc>>
    /\ UNCHANGED <<spawned, running, pipe, pending, written, cmdStatus, cmdOutput>>
    /\ UNCHANGED execVars
    /\ UNCHANGED cwdVars
    /\ UNCHANGED interleaved

\* a variant of CleanupWaitTimeoutKill that does not wait for the grace
\* period before it kills
CleanupWaitTimeoutKill_NoGrace ==
    /\ cpc = "wait"
    /\ nc_process \in running
    /\ ops' = ops \o <<"wait_timeout", "kill">>
    /\ running' = running \ {nc_process}
    /\ pending' = << >>
    /\ logged' = "warning"
    /\ nc_process' = None
    /\ CleanupEnds("returned")
    /\ UNCHANGED <<pc>>
    /\ UNCHANGED <<spawned, pipe, written, cmdStatus, cmdOutput>>
    /\ UNCHANGED execVars
    /\ UNCHANGED cwdVars
    /\ UNCHANGED interleaved

\* lines 116, 118-120, 123: wait() raises TimeoutExpired after the grace
\* period, kill() ends the process
CleanupWaitTimeoutKill ==
    /\ cpc = "wait"
    /\ nc_process \in running
    /\ graceElapsed >= GracePeriod
    /\ ops' = ops \o <<"wait_timeout", "kill">>
    /\ running' = running \ {nc_process}
    /\ pending' = << >>
    /\ logged' = "warning"
    /\ nc_process' = None
    /\ CleanupEnds("returned")
    /\ UNCHANGED <<pc>>
    /\ UNCHANGED <<spawned, pipe, written, cmdStatus, cmdOutput>>
    /\ UNCHANGED execVars
    /\ UNCHANGED cwdVars
    /\ UNCHANGED interleaved

\* lines 118-119: kill() raises inside the except TimeoutExpired handler;
\* no other except clause applies there, the exception leaves cleanup()
\* and line 123 is not reached
CleanupKillRaises ==
    /\ cpc = "wait"
    /\ nc_process \in running
    /\ graceElapsed >= GracePeriod
    /\ ops' = ops \o <<"wait_timeout", "kill">>
    /\ CleanupEnds("raised")
    /\ UNCHANGED <<pc, logged>>
    /\ UNCHANGED envVars
    /\ UNCHANGED execVars
    /\ UNCHANGED cwdVars
    /\ UNCHANGED interleaved

\* -------------------------------------------------------- environment
\* one second passes for the call in flight (time.time() at line 94, the
\* timeout of wait() at line 116). The clock of execute() is followed while
\* its value can still be read: up to the deadline at the loop head, and
\* inside read() until the allowed overshoot is exceeded.
ClockRuns ==
    \/ pc = "loop" /\ elapsed < timeout
    \/ pc = "read" /\ elapsed < timeout + PollInterval + 1

Tick ==
    /\ ClockRuns \/ (cpc = "wait" /\ graceElapsed < GracePeriod)
    /\ elapsed' = IF ClockRuns THEN elapsed + 1 ELSE elapsed
    /\ graceElapsed' = IF cpc = "wait" /\ graceElapsed < GracePeriod
                       THEN graceElapsed + 1 ELSE graceElapsed
    /\ UNCHANGED <<pc, cpc, timeout, output, outcome, result, exitCause, calls,
                   okProc, okSpawned, broken, brokenWrite>>
    /\ UNCHANGED <<cleanups, cleanupOutcome, ops, logged>>
    /\ UNCHANGED envVars
    /\ UNCHANGED cwdVars
    /\ UNCHANGED interleaved

\* the dev container sends the next byte; nc copies it to its stdout
RemoteSend ==
    /\ nc_process \in running
    /\ pending # << >>
    /\ pipe' = Append(pipe, Head(pending))
    /\ pending' = Tail(pending)
    /\ UNCHANGED <<nc_process, spawned, running, written, cmdStatus, cmdOutput>>
    /\ UNCHANGED <<pc, cpc>>
    /\ UNCHANGED execVars
    /\ UNCHANGED cleanupVars
    /\ UNCHANGED cwdVars
    /\ UNCHANGED interleaved

\* the nc process exits (connection refused, reset or closed by the remote
\* end, or a signal); what it has not forwarded is lost, what is in the
\* pipe stays readable
NcExit ==
    /\ \E p \in running : running' = running \ {p}
    /\ pending' = << >>
    /\ UNCHANGED <<nc_process, spawned, pipe, written, cmdStatus, cmdOutput>>
    /\ UNCHANGED <<pc, cpc>>
    /\ UNCHANGED execVars
    /\ UNCHANGED cleanupVars
    /\ UNCHANGED cwdVars
    /\ UNCHANGED interleaved

\* ------------------------------------------------------ specification
Next ==
    \/ SetupConnection
    \/ SetupConnectionFails
    \/ ExecuteCall
    \/ ExecuteNotStarted
    \/ ExecuteWrite
    \/ ExecuteWriteBrokenPipe
    \/ LoopDeadline
    \/ LoopProcessEnded
    \/ LoopEnterRead
    \/ ReadData
    \/ ReadEOF
    \/ CleanupNoop
    \/ CleanupTerminate
    \/ CleanupTerminateRaises
    \/ CleanupWaitExited
    \/ CleanupWaitTimeoutKill
    \/ CleanupKillRaises
    \/ Tick
    \/ RemoteSend
    \/ NcExit

Spec == Init /\ [][Next]_vars

\* ------------------------------------ cleanup() from another thread
\* In Spec the caller serialises execute() and cleanup(). Below, cleanup()
\* (called from another thread or by the finalizer) may also start while an
\* execute() is in flight, and execute() may start while cleanup() waits.

\* what an execute() that dies of an exception leaves behind
Raises(exc) ==
    /\ outcome' = exc
    /\ okProc' = None
    /\ okSpawned' = 0
    /\ timeout' = 0
    /\ elapsed' = 0
    /\ cwd' = ""
    /\ pc' = "idle"

\* line 87: self.nc_process is None by now, None.stdin raises AttributeError
ExecuteWriteNoProcess ==
    /\ pc = "write"
    /\ nc_process = None
    /\ Raises("AttributeError")
    /\ UNCHANGED <<cpc, output, result, exitCause, calls, broken, brokenWrite>>
    /\ UNCHANGED <<shellCwd, interleaved>>
    /\ UNCHANGED envVars
    /\ UNCHANGED cleanupVars

\* line 95: self.nc_process is None by now, None.poll() raises AttributeError
LoopNoProcess ==
    /\ pc = "loop"
    /\ elapsed < timeout
    /\ nc_process = None
    /\ Raises("AttributeError")
    /\ UNCHANGED <<cpc, output, result, exitCause, calls, broken, brokenWrite>>
    /\ UNCHANGED <<shellCwd, interleaved>>
    /\ UNCHANGED envVars
    /\ UNCHANGED cleanupVars

\* cleanup() starts while execute() is in flight
InFlightCleanupNoop == CleanupNoopAt(InFlight)
InFlightCleanupTerminate == CleanupTerminateAt(InFlight)
InFlightCleanupTerminateRaises == CleanupTerminateRaisesAt(InFlight)

\* execute() starts while cleanup() is inside wait()
ExecuteCallDuringWait == ExecuteCallAt({"wait"})

NextConc ==
    \/ Next
    \/ InFlightCleanupNoop
    \/ InFlightCleanupTerminate
    \/ InFlightCleanupTerminateRaises
    \/ ExecuteCallDuringWait
    \/ ExecuteWriteNoProcess
    \/ LoopNoProcess

SpecConc == Init /\ [][NextConc]_vars

\* ---------------------------------------------------- execute: properties
\* the dict carries a timed_out entry that is true
TimedOut(r) == "timed_out" \in DOMAIN r /\ r.timed_out = TRUE

\* what execute() returns for a command that ran to its marker with status 0
SuccessResults == {ResultOf(Response(out)) : out \in Outputs}

\* C1: when the deadline ends the read loop before the marker was received,
\* execute() returns a dict with timed_out = true, exit code -1 and the
\* partial bytes received so far as output.
C1_TimeoutOutcome ==
    (outcome = "returned" /\ exitCause = "deadline") =>
        /\ TimedOut(result)
        /\ result.returncode = -1
        /\ result.output = Decode(output)

\* C2: execute() is never blocked inside read() once the elapsed time
\* exceeds the timeout by more than one polling interval.
C2_NoReadPastDeadline ==
    ~(pc = "read" /\ ReadBlocked /\ elapsed > timeout + PollInterval)

\* C3: when execute() has returned because of the deadline, the nc process
\* it used has been terminated.
C3_TornDownOnTimeout ==
    (outcome = "returned" /\ exitCause = "deadline" /\ nc_process # None) =>
        nc_process \notin running

\* C4: no execute() writes a command to an nc process that has seen a
\* timeout or a transport error.
C4_BrokenIsTerminal == ~brokenWrite

\* C5: when the marker of the command was read on a session that saw no
\* earlier failure, the returned exit code is the command's exit status.
C5_TrueExitStatus ==
    (outcome = "returned" /\ exitCause = "marker" /\ broken = {}) =>
        result.returncode = cmdStatus

\* C7: when the read loop ended because nc exited or the stream ended, the
\* returned outcome is not one a successful command with exit code 0 gives,
\* and the dead process is no longer the cached nc_process.
C7_TransportFailureDistinct ==
    (outcome = "returned" /\ exitCause \in {"exited", "eof"}) =>
        /\ result \notin SuccessResults
        /\ nc_process = None \/ nc_process \in running

\* ---------------------------------------------------- cleanup: properties
\* the current (or last) cleanup() call performed op on the process
Did(op) == \E i \in 1..Len(ops) : ops[i] = op

\* C6: cleanup() never raises, and once two cleanup() calls have ended the
\* later one did nothing to the process (no terminate, wait or kill).
C6_CleanupIdempotentNeverRaises ==
    /\ cleanupOutcome # "raised"
    /\ (cleanups >= 2 /\ cpc = "idle") => ops = << >>

\* C8: whatever cleanup() does to the process starts with terminate; kill is
\* issued exactly when the wait timed out; and the step that issues kill is
\* taken inside wait(), after terminate, with the grace period elapsed.
C8_KillOnlyAfterGrace ==
    /\ [](ops # << >> => ops[1] = "terminate")
    /\ [](Did("kill") <=> Did("wait_timeout"))
    /\ [][(~Did("kill") /\ Did("kill")') =>
            /\ cpc = "wait"
            /\ ops = <<"terminate">>
            /\ graceElapsed >= GracePeriod]_vars

\* cleanup() has terminated, waited out the grace period and killed
C8_Witness ==
    /\ ops = <<"terminate", "wait_timeout", "kill">>
    /\ cleanupOutcome = "returned"
    /\ logged = "warning"
    /\ nc_process = None

\* C9: at most one nc process of the instance runs at any time, and an
\* execute() that finds its marker right after an execute() that found its
\* marker used the same nc process, none having been started in between.
C9_OneConnectionReused ==
    /\ [](Cardinality(running) <= 1)
    /\ [][(pc = "read" /\ pc' = "idle" /\ exitCause' = "marker" /\ okProc # None) =>
            /\ nc_process = okProc
            /\ spawned = okSpawned]_vars

\* two execute() calls in a row have found their markers
C9_Witness ==
    /\ calls = 2
    /\ written = 2
    /\ broken = {}
    /\ outcome = "returned"
    /\ exitCause = "marker"
    /\ okProc = nc_process
    /\ nc_process \in running

\* C10: an execute() call made while nc_process is None ends in
\* RuntimeError, writes nothing and changes nothing of the environment.
C10_NotStartedFailsHard ==
    [][(calls' = calls + 1 /\ nc_process = None) =>
        /\ outcome' = "RuntimeError"
        /\ pc' = pc
        /\ UNCHANGED envVars]_vars

\* execute() has raised RuntimeError after a cleanup() that followed a
\* command
C10_Witness ==
    /\ outcome = "RuntimeError"
    /\ nc_process = None
    /\ written >= 1
    /\ cleanups >= 1
    /\ pc = "idle"

\* ------------------------------------------- working directory: properties
\* C11: the command a call writes runs in the call's effective working
\* directory: after the write the remote shell is in that directory,
\* whatever earlier calls did.
C11_RunsInEffectiveCwd ==
    [][(pc = "write" /\ pc' = "loop") => shellCwd' = cwd]_vars

\* ------------------------------------------------ concurrency: properties
\* C12: when a cleanup() overlapped the execute() call, cleanup() does not
\* raise and execute() ends with a result or with the RuntimeError of line
\* 82, with no other exception. Stated for the runs in which terminate()
\* succeeded and the transport reported no failure.
C12_InterleavingSafe ==
    (interleaved /\ logged # "error" /\ broken = {}) =>
        /\ outcome \in {"none", "returned", "RuntimeError"}
        /\ cleanupOutcome # "raised"

\* ------------------------------------------------ byte stream: properties
\* C13: when the marker was received, the returned output is the received
\* text before the first marker with trailing whitespace removed and
\* nothing else changed (leading whitespace is kept).
C13_OnlyTrailingTrimmed ==
    (outcome = "returned" /\ exitCause = "marker") =>
        result.output = RStrip(SplitFirst(Decode(output)))

\* C14: the marker is looked for in everything received so far after every
\* read: no read is pending or about to be issued while the buffer holds
\* the marker; a call ends on the marker exactly when its buffer holds it;
\* and the returned dict is a function of the received bytes alone.
C14_ChunkingIrrelevant ==
    /\ pc \in {"loop", "read"} => ~ContainsMarker(output)
    /\ outcome = "returned" =>
          /\ result = ResultOf(output)
          /\ exitCause = "marker" <=> ContainsMarker(output)

\* a call has ended on a marker whose two halves arrived in different reads
C14_Witness ==
    /\ outcome = "returned"
    /\ exitCause = "marker"
    /\ Len(output) > ReadSize
    /\ FirstMarker(output) % ReadSize = 0

\* C15: a call that ends on a marker returns what its own command's answer
\* gives; bytes and markers of earlier commands have no part in it.
C15_OnlyOwnBytes ==
    (outcome = "returned" /\ exitCause = "marker") =>
        result = ResultOf(Response(cmdOutput))

\* C16: when a call ends because nc exited or its stream ended, every byte
\* nc had written has been read: none is left in the pipe.
C16_NoBytesLost ==
    (outcome = "returned" /\ exitCause \in {"exited", "eof"}) => pipe = << >>

\* C17: when a cleanup() that found a process handle has returned, no nc
\* process is running and nc_process is None.
C17_CleanupReleases ==
    (cleanupOutcome = "returned" /\ cpc = "idle" /\ Did("terminate")) =>
        /\ nc_process = None
        /\ running = {}

====
